---- MODULE Spec2Model ----
(***************************************************************************)
(* Model of libindy_vdr/src/ffi/pool.rs: the FFI pool registry POOLS, the  *)
(* request registry REQUESTS it consumes from, and the four exported       *)
(* functions indy_vdr_pool_create_from_genesis_file,                       *)
(* indy_vdr_pool_get_transactions, indy_vdr_pool_submit_request and        *)
(* indy_vdr_pool_close, called concurrently by several threads.            *)
(* Every handler is split at the points where it takes a lock or calls the *)
(* pool, so that the interleavings of concurrent callers are explored.     *)
(***************************************************************************)
EXTENDS Naturals, Sequences, FiniteSets, TLC

\* ---------------------------------------------------------------- bounds
NumThreads == 2
MaxCalls == 3
NumRequests == 1
MaxTxns == 4

Threads == 1..NumThreads
CallIds == 1..MaxCalls
\* request handles a caller may pass; NumRequests + 1 was never inserted
RequestHandleArgs == 1..(NumRequests + 1)

VARIABLES
    pools,          \* POOLS: the handles that hold a pool runner
    requests,       \* REQUESTS: the request handles that hold a prepared request
    phCounter,      \* FFI_PH_COUNTER
    poolsReaders,   \* threads holding a read guard of POOLS
    reqsWriter,     \* thread holding the write guard of REQUESTS, 0 if none
    pc,             \* position of each thread inside the function it is running
    cur,            \* the slot of the call each thread is running, 0 if none
    local,          \* create: `handle`; submit_request: `req`; 0 otherwise
    calls,          \* slot -> the call in it: running, or returned with its operation in flight
    done,           \* the calls that are over: returned, and no operation of theirs in flight
    started,        \* number of calls made so far
    issued,         \* handle -> number of times it was written to *handle_p
    removed,        \* request handle -> number of times it was removed from REQUESTS
    lastError       \* the slot written by set_last_error

vars == <<pools, requests, phCounter, poolsReaders, reqsWriter,
          pc, cur, local, calls, done, started, issued, removed, lastError>>

\* pool handles a caller may pass: every handle issued so far, and one that was not
PoolHandleArgs == 1..(phCounter + 1)
\* the arguments of get_transactions and submit_request: every handle with a callback,
\* and one call without a callback
GetTxnsArgs == {<<h, TRUE>> : h \in PoolHandleArgs} \cup {<<1, FALSE>>}
SubmitArgs ==
    {<<h, r, TRUE>> : h \in PoolHandleArgs, r \in RequestHandleArgs} \cup {<<1, 1, FALSE>>}

\* ---------------------------------------------------------------- errors
NoError == [kind |-> "None", msg |-> ""]

err_msg(kind, msg) == [kind |-> kind, msg |-> msg]

input_err(msg) == err_msg("Input", msg)

\* ErrorCode::from(&err): the code is a function of the error's kind alone
ErrorCodeFrom(err) ==
    IF err.kind \in {"Config", "FileSystem", "Input", "PoolTimeout",
                     "PoolNoConsensus", "PoolRequestFailed"}
    THEN err.kind
    ELSE "Unexpected"

\* ---------------------------------------------------------------- results of the pool runner
\* what a runner hands to the completion closure of get_transactions
GetTxnsResults ==
    { [ok |-> TRUE, txns |-> <<"txn1", "txn2">>, err |-> NoError],
      [ok |-> FALSE, txns |-> <<>>, err |-> err_msg("PoolTimeout", "timeout")] }

\* what a runner hands to the completion closure of send_request
SendRequestResults ==
    { [ok |-> TRUE, reply |-> "Reply", body |-> "body", err |-> NoError],
      [ok |-> TRUE, reply |-> "Failed", body |-> "",
       err |-> err_msg("PoolNoConsensus", "no consensus")],
      [ok |-> FALSE, reply |-> "", body |-> "",
       err |-> err_msg("PoolTimeout", "timeout")] }

RECURSIVE join(_, _)
\* a join that starts from the last transaction
join_Reversed(txns, sep) ==
    IF Len(txns) = 0 THEN <<>>
    ELSE [i \in 1..(2 * Len(txns) - 1) |->
             IF i % 2 = 1 THEN txns[Len(txns) - ((i + 1) \div 2) + 1] ELSE sep]

join(txns, sep) ==
    IF Len(txns) = 0 THEN <<>>
    ELSE IF Len(txns) = 1 THEN <<txns[1]>>
    ELSE <<txns[1], sep>> \o join(Tail(txns), sep)

\* the terminator of a C string
NUL == "NUL"
\* rust_string_to_c: the NUL-terminated copy of a string that holds no NUL
rust_string_to_c(s) == s \o <<NUL>>

\* ---------------------------------------------------------------- calls
NoCall == [op |-> "none"]
NoResult == [ok |-> FALSE, reply |-> "none", err |-> NoError]

CallRecord(op, ph, rh, cb, afterClose) ==
    [op |-> op, ph |-> ph, rh |-> rh, cb |-> cb,
     ret |-> "pending",     \* the ErrorCode returned, "pending" while the call runs
     err |-> "",            \* message of the error the call returned
     out |-> 0,             \* the value written to *handle_p
     got |-> 0,             \* the request removed from REQUESTS
     sent |-> 0,            \* number of invocations of the runner made by the call
     inflight |-> FALSE,    \* the runner holds the call's completion closure
     fired |-> 0,           \* number of invocations of cb
     code |-> "",           \* ErrorCode passed to cb
     reply |-> <<>>,        \* C string passed to cb
     result |-> NoResult,   \* what the runner handed to the completion closure
     afterClose |-> afterClose]

\* afterClose: a close of ph had returned Success when the call started
NewCall(op, ph, rh, cb) ==
    CallRecord(op, ph, rh, cb, \E d \in done : d.op = "close" /\ d.ret = "Success" /\ d.ph = ph)

Slots == {s \in CallIds : calls[s] # NoCall}
FreeSlot == CHOOSE s \in CallIds : calls[s] = NoCall /\ \A u \in 1..(s - 1) : calls[u] # NoCall
\* every call made so far
AllCalls == {calls[s] : s \in Slots} \cup done
\* operations accepted by a pool runner whose completion has not run
InFlight == {s \in Slots : calls[s].inflight}

CanCall(t) == pc[t] = "idle" /\ started < MaxCalls

IsOver(r) == r # NoCall /\ r.ret # "pending" /\ ~r.inflight

\* the calls that are over leave their slots
Retire(cs) ==
    /\ calls' = [s \in CallIds |-> IF IsOver(cs[s]) THEN NoCall ELSE cs[s]]
    /\ done' = done \cup {cs[s] : s \in {u \in CallIds : IsOver(cs[u])}}

\* the call begins: the thread is now inside the function
Enter(t, call, next) ==
    /\ calls' = [calls EXCEPT ![FreeSlot] = call]
    /\ cur' = [cur EXCEPT ![t] = FreeSlot]
    /\ pc' = [pc EXCEPT ![t] = next]
    /\ started' = started + 1
    /\ UNCHANGED done

\* catch_err!: Err(err) is turned into its code and stored by set_last_error
ReturnErr(t, c, err, cs) ==
    /\ Retire([cs EXCEPT ![c].ret = ErrorCodeFrom(err), ![c].err = err.msg])
    /\ lastError' = err
    /\ pc' = [pc EXCEPT ![t] = "idle"]
    /\ cur' = [cur EXCEPT ![t] = 0]
    /\ local' = [local EXCEPT ![t] = 0]

ReturnOk(t, c, cs) ==
    /\ Retire([cs EXCEPT ![c].ret = "Success"])
    /\ pc' = [pc EXCEPT ![t] = "idle"]
    /\ cur' = [cur EXCEPT ![t] = 0]
    /\ local' = [local EXCEPT ![t] = 0]
    /\ UNCHANGED lastError

\* a call that returns an error before it reaches a lock
Reject(t, call, err) ==
    /\ ReturnErr(t, FreeSlot, err, [calls EXCEPT ![FreeSlot] = call])
    /\ started' = started + 1

\* ---------------------------------------------------------------- locks
\* write_lock!(POOLS): granted when no other guard of POOLS is alive. The write guard
\* is taken, used and dropped within one step, so a read guard is never refused, and
\* a reader takes its guard in the step in which it enters the function.
CanWrite(t) == poolsReaders = {}

Init ==
    /\ pools = {}
    /\ requests = 1..NumRequests
    /\ phCounter = 0
    /\ poolsReaders = {}
    /\ reqsWriter = 0
    /\ pc = [t \in Threads |-> "idle"]
    /\ cur = [t \in Threads |-> 0]
    /\ local = [t \in Threads |-> 0]
    /\ calls = [s \in CallIds |-> NoCall]
    /\ done = {}
    /\ started = 0
    /\ issued = [h \in 1..MaxCalls |-> 0]
    /\ removed = [r \in RequestHandleArgs |-> 0]
    /\ lastError = NoError

\* ---------------------------------------------------------------- indy_vdr_pool_create_from_genesis_file
\* what can happen before the handle is allocated: a null handle_p, or a failure
\* of the pool factory (from_genesis_file, set_config or create_runner)
CreateOutcomes == {"ok", "null", "factory"}

CreateError(outcome) ==
    IF outcome = "null"
    THEN input_err("Invalid pointer for result value")
    ELSE err_msg("Config", "pool factory")

\* PoolHandle::next(): the value of the counter after it was advanced by one
PoolHandleNext(counter) == counter + 1

\* a create that has put an entry into the table when the pool factory fails
CreateCall_EntryOnFailure(t, outcome) ==
    /\ CanCall(t)
    /\ LET call == NewCall("create", 0, 0, FALSE)
       IN IF outcome = "ok"
          THEN /\ Enter(t, call, "cr_next")
               /\ UNCHANGED <<local, lastError, pools>>
          ELSE /\ Reject(t, call, CreateError(outcome))
               /\ pools' = IF outcome = "factory"
                           THEN pools \cup {PoolHandleNext(phCounter)} ELSE pools
    /\ UNCHANGED <<requests, phCounter, poolsReaders,
                   reqsWriter, issued, removed>>

CreateCall(t, outcome) ==
    /\ CanCall(t)
    /\ LET call == NewCall("create", 0, 0, FALSE)
       IN IF outcome = "ok"
          THEN /\ Enter(t, call, "cr_next")
               /\ UNCHANGED <<local, lastError>>
          ELSE Reject(t, call, CreateError(outcome))
    /\ UNCHANGED <<pools, requests, phCounter, poolsReaders,
                   reqsWriter, issued, removed>>

\* a handle taken from the size of the table instead of the counter
CreateNext_TableSize(t) ==
    /\ pc[t] = "cr_next"
    /\ local' = [local EXCEPT ![t] = Cardinality(pools) + 1]
    /\ phCounter' = PoolHandleNext(phCounter)
    /\ pc' = [pc EXCEPT ![t] = "cr_insert"]
    /\ UNCHANGED <<pools, requests, poolsReaders, reqsWriter,
                   cur, calls, done, started, issued, removed, lastError>>

CreateNext(t) ==
    /\ pc[t] = "cr_next"
    /\ local' = [local EXCEPT ![t] = PoolHandleNext(phCounter)]
    /\ phCounter' = PoolHandleNext(phCounter)
    /\ pc' = [pc EXCEPT ![t] = "cr_insert"]
    /\ UNCHANGED <<pools, requests, poolsReaders, reqsWriter,
                   cur, calls, done, started, issued, removed, lastError>>

\* a create that writes the handle without inserting the pool
CreateInsert_NoInsert(t) ==
    /\ pc[t] = "cr_insert"
    /\ CanWrite(t)
    /\ pools' = pools
    /\ issued' = [issued EXCEPT ![local[t]] = @ + 1]
    /\ ReturnOk(t, cur[t], [calls EXCEPT ![cur[t]].out = local[t]])
    /\ UNCHANGED <<requests, phCounter, poolsReaders, reqsWriter, started, removed>>

CreateInsert(t) ==
    /\ pc[t] = "cr_insert"
    /\ CanWrite(t)
    /\ pools' = pools \cup {local[t]}
    /\ issued' = [issued EXCEPT ![local[t]] = @ + 1]
    /\ ReturnOk(t, cur[t], [calls EXCEPT ![cur[t]].out = local[t]])
    /\ UNCHANGED <<requests, phCounter, poolsReaders, reqsWriter, started, removed>>

\* ---------------------------------------------------------------- indy_vdr_pool_get_transactions
\* the error of a runner that cannot take the operation
RunnerSendError == err_msg("Unexpected", "runner not available")

\* a lookup that takes POOLS exclusively
GetTxnsCall_Exclusive(t, h, cb) ==
    /\ CanCall(t)
    /\ cb => poolsReaders = {}
    /\ LET call == NewCall("get_transactions", h, 0, cb)
       IN IF ~cb
          THEN /\ Reject(t, call, input_err("No callback provided"))
               /\ UNCHANGED poolsReaders
          ELSE IF h \notin pools
          THEN /\ Reject(t, call, input_err("Unknown pool handle"))
               /\ UNCHANGED poolsReaders
          ELSE /\ Enter(t, call, "gt_dispatch")
               /\ poolsReaders' = poolsReaders \cup {t}
               /\ UNCHANGED <<local, lastError>>
    /\ UNCHANGED <<pools, requests, phCounter, reqsWriter, issued, removed>>

\* the callback is checked, the read guard of POOLS taken and the pool looked up
GetTxnsCall(t, h, cb) ==
    /\ CanCall(t)
    /\ LET call == NewCall("get_transactions", h, 0, cb)
       IN IF ~cb
          THEN /\ Reject(t, call, input_err("No callback provided"))
               /\ UNCHANGED poolsReaders
          ELSE IF h \notin pools
          THEN /\ Reject(t, call, input_err("Unknown pool handle"))
               /\ UNCHANGED poolsReaders
          ELSE /\ Enter(t, call, "gt_dispatch")
               /\ poolsReaders' = poolsReaders \cup {t}
               /\ UNCHANGED <<local, lastError>>
    /\ UNCHANGED <<pools, requests, phCounter, reqsWriter, issued, removed>>

\* a dispatch that tries the runner a second time when it refuses
GetTxnsDispatch_Retry(t, accepted) ==
    /\ pc[t] = "gt_dispatch"
    /\ LET c == cur[t]
           cs == [calls EXCEPT ![c].sent = @ + (IF accepted THEN 1 ELSE 2)]
       IN IF accepted
          THEN /\ calls' = [cs EXCEPT ![c].inflight = TRUE]
               /\ pc' = [pc EXCEPT ![t] = "gt_return"]
               /\ UNCHANGED <<poolsReaders, cur, local, done, lastError>>
          ELSE /\ ReturnErr(t, c, RunnerSendError, cs)
               /\ poolsReaders' = poolsReaders \ {t}
    /\ UNCHANGED <<pools, requests, phCounter, reqsWriter,
                   started, issued, removed>>

GetTxnsDispatch(t, accepted) ==
    /\ pc[t] = "gt_dispatch"
    /\ LET c == cur[t]
           cs == [calls EXCEPT ![c].sent = @ + 1]
       IN IF accepted
          THEN /\ calls' = [cs EXCEPT ![c].inflight = TRUE]
               /\ pc' = [pc EXCEPT ![t] = "gt_return"]
               /\ UNCHANGED <<poolsReaders, cur, local, done, lastError>>
          ELSE /\ ReturnErr(t, c, RunnerSendError, cs)
               /\ poolsReaders' = poolsReaders \ {t}
    /\ UNCHANGED <<pools, requests, phCounter, reqsWriter,
                   started, issued, removed>>

\* a return that leaves the read guard of POOLS alive
GetTxnsReturn_KeepGuard(t) ==
    /\ pc[t] = "gt_return"
    /\ ReturnOk(t, cur[t], calls)
    /\ UNCHANGED <<pools, requests, phCounter, poolsReaders, reqsWriter,
                   started, issued, removed>>

\* an error returned after the runner accepted the operation
GetTxnsReturn_ErrAfterDispatch(t) ==
    /\ pc[t] = "gt_return"
    /\ ReturnErr(t, cur[t], RunnerSendError, calls)
    /\ poolsReaders' = poolsReaders \ {t}
    /\ UNCHANGED <<pools, requests, phCounter, reqsWriter,
                   started, issued, removed>>

GetTxnsReturn(t) ==
    /\ pc[t] = "gt_return"
    /\ ReturnOk(t, cur[t], calls)
    /\ poolsReaders' = poolsReaders \ {t}
    /\ UNCHANGED <<pools, requests, phCounter, reqsWriter,
                   started, issued, removed>>

\* a closure that forgets cb on the error path
GetTxnsClosure_NoCbOnErr(result) ==
    IF result.ok
    THEN [errcode |-> "Success", reply |-> join(result.txns, "\n"), err |-> NoError,
          invoked |-> 1]
    ELSE [errcode |-> ErrorCodeFrom(result.err), reply |-> <<>>, err |-> result.err,
          invoked |-> 0]

\* the completion closure built by get_transactions: the code and the payload it
\* passes to cb, the error it stores, and the number of times it invokes cb
GetTxnsClosure(result) ==
    IF result.ok
    THEN [errcode |-> "Success", reply |-> join(result.txns, "\n"), err |-> NoError,
          invoked |-> 1]
    ELSE [errcode |-> ErrorCodeFrom(result.err), reply |-> <<>>, err |-> result.err,
          invoked |-> 1]

\* ---------------------------------------------------------------- indy_vdr_pool_submit_request
\* a submit_request that removes the request before it looks the pool up
SubmitCall_RequestFirst(t, h, r, cb) ==
    /\ CanCall(t)
    /\ LET call == NewCall("submit_request", h, r, cb)
       IN IF ~cb
          THEN /\ Reject(t, call, input_err("No callback provided"))
               /\ UNCHANGED <<poolsReaders, requests>>
          ELSE IF h \notin pools
          THEN /\ Reject(t, call, input_err("Unknown pool handle"))
               /\ requests' = requests \ {r}
               /\ UNCHANGED poolsReaders
          ELSE /\ Enter(t, call, "sr_reqlock")
               /\ poolsReaders' = poolsReaders \cup {t}
               /\ UNCHANGED <<local, lastError, requests>>
    /\ UNCHANGED <<pools, phCounter, reqsWriter, issued, removed>>

\* the callback is checked, the read guard of POOLS taken and the pool looked up
SubmitCall(t, h, r, cb) ==
    /\ CanCall(t)
    /\ LET call == NewCall("submit_request", h, r, cb)
       IN IF ~cb
          THEN /\ Reject(t, call, input_err("No callback provided"))
               /\ UNCHANGED poolsReaders
          ELSE IF h \notin pools
          THEN /\ Reject(t, call, input_err("Unknown pool handle"))
               /\ UNCHANGED poolsReaders
          ELSE /\ Enter(t, call, "sr_reqlock")
               /\ poolsReaders' = poolsReaders \cup {t}
               /\ UNCHANGED <<local, lastError>>
    /\ UNCHANGED <<pools, requests, phCounter, reqsWriter, issued, removed>>

SubmitReqLock(t) ==
    /\ pc[t] = "sr_reqlock"
    /\ reqsWriter = 0
    /\ reqsWriter' = t
    /\ pc' = [pc EXCEPT ![t] = "sr_remove"]
    /\ UNCHANGED <<pools, requests, phCounter, poolsReaders,
                   cur, local, calls, done, started, issued, removed, lastError>>

\* an unknown request handle reported as an error of its own kind
SubmitRemove_OwnKind(t) ==
    /\ pc[t] = "sr_remove"
    /\ LET c == cur[t]
           r == calls[c].rh
       IN IF r \in requests
          THEN /\ requests' = requests \ {r}
               /\ removed' = [removed EXCEPT ![r] = @ + 1]
               /\ local' = [local EXCEPT ![t] = r]
               /\ calls' = [calls EXCEPT ![c].got = r]
               /\ pc' = [pc EXCEPT ![t] = "sr_dispatch"]
               /\ UNCHANGED <<poolsReaders, cur, done, lastError>>
          ELSE /\ ReturnErr(t, c, err_msg("Resource", "Unknown request handle"), calls)
               /\ poolsReaders' = poolsReaders \ {t}
               /\ UNCHANGED <<requests, removed>>
    /\ reqsWriter' = 0
    /\ UNCHANGED <<pools, phCounter, started, issued>>

\* the request is read from REQUESTS and left there
SubmitRemove_Get(t) ==
    /\ pc[t] = "sr_remove"
    /\ LET c == cur[t]
           r == calls[c].rh
       IN IF r \in requests
          THEN /\ removed' = [removed EXCEPT ![r] = @ + 1]
               /\ local' = [local EXCEPT ![t] = r]
               /\ calls' = [calls EXCEPT ![c].got = r]
               /\ pc' = [pc EXCEPT ![t] = "sr_dispatch"]
               /\ UNCHANGED <<poolsReaders, cur, done, lastError>>
          ELSE /\ ReturnErr(t, c, input_err("Unknown request handle"), calls)
               /\ poolsReaders' = poolsReaders \ {t}
               /\ UNCHANGED removed
    /\ reqsWriter' = 0
    /\ UNCHANGED <<pools, requests, phCounter, started, issued>>

SubmitRemove(t) ==
    /\ pc[t] = "sr_remove"
    /\ LET c == cur[t]
           r == calls[c].rh
       IN IF r \in requests
          THEN /\ requests' = requests \ {r}
               /\ removed' = [removed EXCEPT ![r] = @ + 1]
               /\ local' = [local EXCEPT ![t] = r]
               /\ calls' = [calls EXCEPT ![c].got = r]
               /\ pc' = [pc EXCEPT ![t] = "sr_dispatch"]
               /\ UNCHANGED <<poolsReaders, cur, done, lastError>>
          ELSE /\ ReturnErr(t, c, input_err("Unknown request handle"), calls)
               /\ poolsReaders' = poolsReaders \ {t}
               /\ UNCHANGED <<requests, removed>>
    /\ reqsWriter' = 0
    /\ UNCHANGED <<pools, phCounter, started, issued>>

\* a dispatch that returns the request to REQUESTS when the runner refuses it
SubmitDispatch_PutBack(t, accepted) ==
    /\ pc[t] = "sr_dispatch"
    /\ LET c == cur[t]
           cs == [calls EXCEPT ![c].sent = @ + 1]
       IN IF accepted
          THEN /\ calls' = [cs EXCEPT ![c].inflight = TRUE]
               /\ pc' = [pc EXCEPT ![t] = "sr_return"]
               /\ UNCHANGED <<poolsReaders, cur, local, done, lastError, requests>>
          ELSE /\ ReturnErr(t, c, RunnerSendError, cs)
               /\ poolsReaders' = poolsReaders \ {t}
               /\ requests' = requests \cup {calls[c].got}
    /\ UNCHANGED <<pools, phCounter, reqsWriter,
                   started, issued, removed>>

SubmitDispatch(t, accepted) ==
    /\ pc[t] = "sr_dispatch"
    /\ LET c == cur[t]
           cs == [calls EXCEPT ![c].sent = @ + 1]
       IN IF accepted
          THEN /\ calls' = [cs EXCEPT ![c].inflight = TRUE]
               /\ pc' = [pc EXCEPT ![t] = "sr_return"]
               /\ UNCHANGED <<poolsReaders, cur, local, done, lastError>>
          ELSE /\ ReturnErr(t, c, RunnerSendError, cs)
               /\ poolsReaders' = poolsReaders \ {t}
    /\ UNCHANGED <<pools, requests, phCounter, reqsWriter,
                   started, issued, removed>>

\* a return that leaves the read guard of POOLS alive
SubmitReturn_KeepGuard(t) ==
    /\ pc[t] = "sr_return"
    /\ ReturnOk(t, cur[t], calls)
    /\ UNCHANGED <<pools, requests, phCounter, poolsReaders, reqsWriter,
                   started, issued, removed>>

SubmitReturn(t) ==
    /\ pc[t] = "sr_return"
    /\ ReturnOk(t, cur[t], calls)
    /\ poolsReaders' = poolsReaders \ {t}
    /\ UNCHANGED <<pools, requests, phCounter, reqsWriter,
                   started, issued, removed>>

\* a closure that does not store the error of a failed request
SubmitClosure_FailedNotStored(result) ==
    IF result.ok
    THEN IF result.reply = "Reply"
         THEN [errcode |-> "Success", reply |-> <<result.body>>, err |-> NoError,
               invoked |-> 1]
         ELSE [errcode |-> ErrorCodeFrom(result.err), reply |-> <<>>, err |-> NoError,
               invoked |-> 1]
    ELSE [errcode |-> ErrorCodeFrom(result.err), reply |-> <<>>, err |-> result.err,
          invoked |-> 1]

\* the completion closure built by submit_request
SubmitClosure(result) ==
    IF result.ok
    THEN IF result.reply = "Reply"
         THEN [errcode |-> "Success", reply |-> <<result.body>>, err |-> NoError,
               invoked |-> 1]
         ELSE [errcode |-> ErrorCodeFrom(result.err), reply |-> <<>>, err |-> result.err,
               invoked |-> 1]
    ELSE [errcode |-> ErrorCodeFrom(result.err), reply |-> <<>>, err |-> result.err,
          invoked |-> 1]

\* ---------------------------------------------------------------- indy_vdr_pool_close
CloseCall(t, h) ==
    /\ CanCall(t)
    /\ Enter(t, NewCall("close", h, 0, FALSE), "cl_remove")
    /\ UNCHANGED <<pools, requests, phCounter, poolsReaders,
                   reqsWriter, local, issued, removed, lastError>>

\* a close that takes a missing entry for a closed one
CloseRemove_IgnoreMissing(t) ==
    /\ pc[t] = "cl_remove"
    /\ CanWrite(t)
    /\ pools' = pools \ {calls[cur[t]].ph}
    /\ ReturnOk(t, cur[t], calls)
    /\ UNCHANGED <<requests, phCounter, poolsReaders, reqsWriter,
                   started, issued, removed>>

\* a close that drops the operations its pool has in flight
CloseRemove_Abort(t) ==
    /\ pc[t] = "cl_remove"
    /\ CanWrite(t)
    /\ LET c == cur[t]
           h == calls[c].ph
           cs == [s \in CallIds |->
                    IF calls[s] # NoCall /\ calls[s].inflight /\ calls[s].ph = h
                    THEN [calls[s] EXCEPT !.inflight = FALSE]
                    ELSE calls[s]]
       IN IF h \in pools
          THEN /\ pools' = pools \ {h}
               /\ ReturnOk(t, c, cs)
          ELSE /\ ReturnErr(t, c, input_err("Unknown pool handle"), calls)
               /\ UNCHANGED pools
    /\ UNCHANGED <<requests, phCounter, poolsReaders, reqsWriter,
                   started, issued, removed>>

\* the entry is looked up and left in the table
CloseRemove_Get(t) ==
    /\ pc[t] = "cl_remove"
    /\ CanWrite(t)
    /\ LET c == cur[t]
           h == calls[c].ph
       IN IF h \in pools
          THEN ReturnOk(t, c, calls)
          ELSE ReturnErr(t, c, input_err("Unknown pool handle"), calls)
    /\ UNCHANGED <<pools, requests, phCounter, poolsReaders, reqsWriter,
                   started, issued, removed>>

\* a close that removes the pool without waiting for the write lock
CloseRemove_Unlocked(t) ==
    /\ pc[t] = "cl_remove"
    /\ LET c == cur[t]
           h == calls[c].ph
       IN IF h \in pools
          THEN /\ pools' = pools \ {h}
               /\ ReturnOk(t, c, calls)
          ELSE /\ ReturnErr(t, c, input_err("Unknown pool handle"), calls)
               /\ UNCHANGED pools
    /\ UNCHANGED <<requests, phCounter, poolsReaders, reqsWriter,
                   started, issued, removed>>

CloseRemove(t) ==
    /\ pc[t] = "cl_remove"
    /\ CanWrite(t)
    /\ LET c == cur[t]
           h == calls[c].ph
       IN IF h \in pools
          THEN /\ pools' = pools \ {h}
               /\ ReturnOk(t, c, calls)
          ELSE /\ ReturnErr(t, c, input_err("Unknown pool handle"), calls)
               /\ UNCHANGED pools
    /\ UNCHANGED <<requests, phCounter, poolsReaders, reqsWriter,
                   started, issued, removed>>

\* ---------------------------------------------------------------- completion
\* the completion closure runs: set_last_error on a failure, then cb
RunClosure(c, result, out) ==
    /\ Retire([calls EXCEPT ![c].inflight = FALSE, ![c].fired = @ + out.invoked,
                            ![c].code = out.errcode, ![c].reply = rust_string_to_c(out.reply),
                            ![c].result = result])
    /\ lastError' = IF out.err = NoError THEN lastError ELSE out.err

\* the runner's thread completes an operation it accepted with one of the results
CompleteWith(c, txnsResults, requestResults) ==
    /\ c \in InFlight
    /\ IF calls[c].op = "get_transactions"
       THEN \E result \in txnsResults : RunClosure(c, result, GetTxnsClosure(result))
       ELSE \E result \in requestResults : RunClosure(c, result, SubmitClosure(result))
    /\ UNCHANGED <<pools, requests, phCounter, poolsReaders, reqsWriter, pc, cur, local, started, issued, removed>>

Complete(c) == CompleteWith(c, GetTxnsResults, SendRequestResults)

\* ---------------------------------------------------------------- specification
ThreadStep(t) ==
    \/ CreateNext(t) \/ CreateInsert(t)
    \/ (\E a \in BOOLEAN : GetTxnsDispatch(t, a)) \/ GetTxnsReturn(t)
    \/ SubmitReqLock(t) \/ SubmitRemove(t)
    \/ (\E a \in BOOLEAN : SubmitDispatch(t, a)) \/ SubmitReturn(t)
    \/ CloseRemove(t)

Next ==
    \/ \E t \in Threads, o \in CreateOutcomes : CreateCall(t, o)
    \/ \E t \in Threads, a \in GetTxnsArgs : GetTxnsCall(t, a[1], a[2])
    \/ \E t \in Threads, a \in SubmitArgs : SubmitCall(t, a[1], a[2], a[3])
    \/ \E t \in Threads, h \in PoolHandleArgs : CloseCall(t, h)
    \/ \E t \in Threads : ThreadStep(t)
    \/ \E c \in CallIds : Complete(c)

Spec == Init /\ [][Next]_vars

\* ---------------------------------------------------------------- the completion closures alone
\* every result a runner can hand to a completion closure, up to MaxTxns transactions
TxnValues == {"txn1", "txn2", "txn3"}
TxnLists == UNION {[1..n -> TxnValues] : n \in 0..MaxTxns}
RunnerErrors ==
    { err_msg("PoolTimeout", "timeout"), err_msg("PoolNoConsensus", "no consensus"),
      err_msg("PoolRequestFailed", "request failed"), err_msg("Unexpected", "unexpected") }

AnyGetTxnsResults ==
    {[ok |-> TRUE, txns |-> l, err |-> NoError] : l \in TxnLists}
       \cup {[ok |-> FALSE, txns |-> <<>>, err |-> e] : e \in RunnerErrors}

AnySendRequestResults ==
    {[ok |-> TRUE, reply |-> "Reply", body |-> b, err |-> NoError] : b \in {"body", "{}"}}
       \cup {[ok |-> TRUE, reply |-> "Failed", body |-> "", err |-> e] : e \in RunnerErrors}
       \cup {[ok |-> FALSE, reply |-> "", body |-> "", err |-> e] : e \in RunnerErrors}

\* a pool has been created under handle 1 and one call naming it has been
\* dispatched and has returned Success; its operation is with the runner
ClosureInit ==
    \E op \in {"get_transactions", "submit_request"} :
        /\ pools = {1}
        /\ phCounter = 1
        /\ issued = [h \in 1..MaxCalls |-> IF h = 1 THEN 1 ELSE 0]
        /\ requests = IF op = "submit_request" THEN (1..NumRequests) \ {1} ELSE 1..NumRequests
        /\ removed = [r \in RequestHandleArgs |->
                         IF op = "submit_request" /\ r = 1 THEN 1 ELSE 0]
        /\ poolsReaders = {}
        /\ reqsWriter = 0
        /\ pc = [t \in Threads |-> "idle"]
        /\ cur = [t \in Threads |-> 0]
        /\ local = [t \in Threads |-> 0]
        /\ done = {[CallRecord("create", 0, 0, FALSE, FALSE) EXCEPT
                        !.ret = "Success", !.out = 1]}
        /\ calls = [s \in CallIds |->
                       IF s = 1
                       THEN [CallRecord(op, 1, IF op = "submit_request" THEN 1 ELSE 0,
                                        TRUE, FALSE) EXCEPT
                                !.ret = "Success", !.sent = 1, !.inflight = TRUE,
                                !.got = IF op = "submit_request" THEN 1 ELSE 0]
                       ELSE NoCall]
        /\ started = 2
        /\ lastError = NoError

\* the closure of a call, applied to the result it was given
ClosureOf(r) ==
    IF r.op = "get_transactions" THEN GetTxnsClosure(r.result) ELSE SubmitClosure(r.result)

\* a closure that stores the error only after it has invoked cb
ClosureStep_StoreAfterCb(c, txnsResults, requestResults) ==
    /\ c \in InFlight
    /\ IF calls[c].result = NoResult
       THEN /\ \E result \in IF calls[c].op = "get_transactions"
                              THEN txnsResults ELSE requestResults :
                   calls' = [calls EXCEPT ![c].result = result]
            /\ UNCHANGED <<done, lastError>>
       ELSE LET out == ClosureOf(calls[c])
            IN /\ Retire([calls EXCEPT ![c].inflight = FALSE,
                                       ![c].fired = @ + out.invoked,
                                       ![c].code = out.errcode,
                                       ![c].reply = rust_string_to_c(out.reply)])
               /\ lastError' = IF out.err = NoError THEN lastError ELSE out.err
    /\ UNCHANGED <<pools, requests, phCounter, poolsReaders, reqsWriter, pc, cur, local,
                   started, issued, removed>>

\* the closure in its two steps: the match on the result, with set_last_error
\* on a failure, and then the invocation of cb
ClosureStep(c, txnsResults, requestResults) ==
    /\ c \in InFlight
    /\ IF calls[c].result = NoResult
       THEN \E result \in IF calls[c].op = "get_transactions"
                           THEN txnsResults ELSE requestResults :
               LET out == ClosureOf([calls[c] EXCEPT !.result = result])
               IN /\ calls' = [calls EXCEPT ![c].result = result]
                  /\ lastError' = IF out.err = NoError THEN lastError ELSE out.err
                  /\ UNCHANGED done
       ELSE LET out == ClosureOf(calls[c])
            IN /\ Retire([calls EXCEPT ![c].inflight = FALSE,
                                       ![c].fired = @ + out.invoked,
                                       ![c].code = out.errcode,
                                       ![c].reply = rust_string_to_c(out.reply)])
               /\ UNCHANGED lastError
    /\ UNCHANGED <<pools, requests, phCounter, poolsReaders, reqsWriter, pc, cur, local,
                   started, issued, removed>>

\* meanwhile another call can fail: a get_transactions without a callback
ClosureNext ==
    \/ \E c \in CallIds : ClosureStep(c, AnyGetTxnsResults, AnySendRequestResults)
    \/ \E t \in Threads : GetTxnsCall(t, 1, FALSE)

ClosureSpec == ClosureInit /\ [][ClosureNext]_vars

\* ---------------------------------------------------------------- claims
\* a get_transactions or submit_request call that returned Success
Dispatched(r) == r.op \in {"get_transactions", "submit_request"} /\ r.ret = "Success"

\* a get_transactions or submit_request call that returned an error
Refused(r) ==
    r.op \in {"get_transactions", "submit_request"} /\ r.ret \notin {"pending", "Success"}

\* a successful close of handle h has returned
Closed(h) == \E d \in done : d.op = "close" /\ d.ret = "Success" /\ d.ph = h

\* C1: the callback of a get_transactions or submit_request call that returned
\* Success is invoked exactly once: it is never invoked twice, and at every moment
\* it either has been invoked once or the runner still holds the operation, which
\* invokes it when the runner completes it; closes of the pool do not change this.
C1_ExactlyOnce ==
    \A r \in AllCalls :
        /\ r.fired <= 1
        /\ Dispatched(r) => (r.fired = 1) = ~r.inflight

\* a call whose pool was closed has returned Success and its callback has run
C1_Witness ==
    \E r \in done : Dispatched(r) /\ r.fired = 1 /\ Closed(r.ph)

\* C2: when get_transactions or submit_request returns an error, the callback of
\* that call has not been invoked and no runner holds it, so it never is.
C2_NoCallbackAfterError ==
    \A r \in AllCalls : Refused(r) => r.fired = 0 /\ ~r.inflight

\* a call with a callback was refused by the runner itself
C2_Witness ==
    \E r \in done : Refused(r) /\ r.cb /\ r.sent = 1 /\ r.ret = "Unexpected"

\* C3: a request handle is removed from REQUESTS by at most one submit_request
\* call, which invokes the runner at most once; every other call naming the handle
\* obtains no request and returns an error, the unknown request handle error when
\* it reaches REQUESTS.
C3_RequestConsumedOnce ==
    \A R \in RequestHandleArgs :
        /\ removed[R] <= 1
        /\ Cardinality({r \in AllCalls : r.got = R}) <= 1
        /\ \A r \in AllCalls :
              (r.op = "submit_request" /\ r.rh = R /\ R \notin requests) =>
                  \/ r.got = R /\ r.sent <= 1
                  \/ /\ r.got = 0 /\ r.sent = 0
                     /\ r.ret \in {"pending", "Input"}
                     /\ (r.ret = "Input" /\ r.cb /\ r.err # "Unknown pool handle")
                            => r.err = "Unknown request handle"

\* one call consumed a request that was in REQUESTS and another call naming it
\* was refused
C3_Witness ==
    \E r1 \in done, r2 \in done :
        /\ r1.got \in 1..NumRequests /\ r1.sent = 1
        /\ r2.op = "submit_request" /\ r2.rh = r1.got
        /\ r2.err = "Unknown request handle"

\* C4: no handle is written to *handle_p twice, an insert never replaces a live
\* entry of POOLS, and the entry of every successful create stays in POOLS until a
\* close of its handle succeeds.
C4_HandlesUnique ==
    /\ \A h \in DOMAIN issued : issued[h] <= 1
    /\ \A t \in Threads : pc[t] = "cr_insert" =>
          /\ local[t] \notin pools
          /\ issued[local[t]] = 0
          /\ \A u \in Threads \ {t} : pc[u] = "cr_insert" => local[u] # local[t]
    /\ \A r \in AllCalls :
          (r.op = "create" /\ r.ret = "Success") =>
              /\ r.out \in 1..phCounter
              /\ r.out \in pools \/ Closed(r.out)

\* a create succeeded after the handle of an earlier create was closed
C4_Witness ==
    \E r1 \in done, r2 \in done :
        /\ r1.op = "create" /\ r2.op = "create"
        /\ r1.ret = "Success" /\ r2.ret = "Success"
        /\ r1.out # r2.out
        /\ Closed(r1.out) /\ r2.out \in pools

C6_CloseUnknownNoEffect ==
    [][\A t \in Threads :
          (pc[t] = "cl_remove" /\ pc'[t] = "idle" /\ calls[cur[t]].ph \notin pools) =>
              /\ done' = done \cup {[calls[cur[t]] EXCEPT !.ret = "Input",
                                                         !.err = "Unknown pool handle"]}
              /\ calls' = [calls EXCEPT ![cur[t]] = NoCall]
              /\ InFlight' = InFlight
              /\ pools' = pools
              /\ requests' = requests
              /\ phCounter' = phCounter
              /\ poolsReaders' = poolsReaders
              /\ reqsWriter' = reqsWriter]_vars

\* a close of a handle that was closed before has returned
C6_Witness ==
    \E d \in done : d.op = "close" /\ d.afterClose /\ d.ret = "Input"

\* the codes the completion closures can pass to the callback
CallbackCodes(op) ==
    IF op = "get_transactions"
    THEN {GetTxnsClosure(res).errcode : res \in GetTxnsResults}
    ELSE {SubmitClosure(res).errcode : res \in SendRequestResults}

\* C7: close leaves the operations in flight alone, and an operation whose pool
\* was closed is either still held by the runner, its callback not invoked, or was
\* completed with its callback invoked once with a code of the runner's result.
C7_CloseLeavesInFlight ==
    /\ [](\A r \in AllCalls :
            (Dispatched(r) /\ Closed(r.ph)) =>
                \/ r.inflight /\ r.fired = 0
                \/ ~r.inflight /\ r.fired = 1 /\ r.code \in CallbackCodes(r.op))
    /\ [][\A t \in Threads :
            (pc[t] = "cl_remove" /\ pc'[t] = "idle") =>
                \A s \in CallIds \ {cur[t]} : calls'[s] = calls[s]]_vars

\* close has returned Success while an operation of its pool is in flight
C7_Witness ==
    \E s \in InFlight : Closed(calls[s].ph) /\ calls[s].ret = "Success"

\* C8 as stated: a missing callback, an unknown pool handle and an unknown request
\* handle are rejected with three different codes.
C8_SeparateCodes ==
    \A r1 \in AllCalls, r2 \in AllCalls :
        /\ (r1.err = "No callback provided"
              /\ r2.err \in {"Unknown pool handle", "Unknown request handle"})
           => r1.ret # r2.ret
        /\ (r1.err = "Unknown pool handle" /\ r2.err = "Unknown request handle")
           => r1.ret # r2.ret

\* C8, amended: a call without a callback, a call naming a closed pool handle and a
\* submit_request naming a request handle that is not in REQUESTS are all rejected
\* with the one input-error code; only the message of the error names the cause.
C8_OneInputCode ==
    \A r \in AllCalls :
        /\ (r.op \in {"get_transactions", "submit_request"} /\ ~r.cb /\ r.ret # "pending")
           => r.ret = "Input" /\ r.err = "No callback provided"
        /\ (r.afterClose /\ r.cb /\ r.ret # "pending")
           => r.ret = "Input" /\ r.err = "Unknown pool handle"
        /\ (r.op = "submit_request" /\ r.cb /\ r.ret # "pending" /\ r.got = 0
              /\ r.err # "Unknown pool handle")
           => r.ret = "Input" /\ r.err = "Unknown request handle"

\* a call without a callback and a submit_request of an unknown request handle
\* were both rejected, with the same code
C8_Witness ==
    \E r1 \in done, r2 \in done :
        /\ r1.err = "No callback provided"
        /\ r2.err = "Unknown request handle"
        /\ r1.ret = r2.ret

\* the positions at which a thread holds a read guard of POOLS
GuardHeld == {"gt_dispatch", "gt_return", "sr_reqlock", "sr_remove", "sr_dispatch", "sr_return"}

\* C9 as stated: the read guard of POOLS is not held while the runner is invoked,
\* nor while the write lock of REQUESTS is acquired, nor while the operation is in
\* flight.
C9_GuardOnlyForLookup ==
    \A t \in poolsReaders :
        /\ pc[t] \notin {"gt_dispatch", "sr_dispatch", "sr_reqlock"}
        /\ cur[t] \notin InFlight

\* C9, amended: a thread holds the read guard of POOLS from the lookup until its
\* call returns, the invocation of the runner and the locking of REQUESTS included,
\* and holds none once the call has returned, whatever is in flight.
C9_GuardUntilReturn ==
    \A t \in Threads : (t \in poolsReaders) = (pc[t] \in GuardHeld)

\* an operation is in flight, its call has returned and no read guard is held
C9_Witness ==
    \E s \in InFlight :
        /\ calls[s].ret = "Success"
        /\ poolsReaders = {}
        /\ \A t \in Threads : pc[t] = "idle"

\* the thread can take the next step of the function it is in
CanStep(t) == ENABLED ThreadStep(t)

\* C10: a thread inside a call that cannot take its next step waits for a lock and
\* for nothing else; the holders of that lock can take their next step, or wait for
\* REQUESTS whose holder can; the holder of REQUESTS never waits. No chain of
\* waiting threads is closed, whatever operations are in flight.
C10_NoDeadlock ==
    /\ reqsWriter # 0 => pc[reqsWriter] = "sr_remove" /\ CanStep(reqsWriter)
    /\ \A t \in Threads :
          (pc[t] # "idle" /\ ~CanStep(t)) =>
              \/ pc[t] = "sr_reqlock" /\ reqsWriter \in Threads \ {t}
              \/ /\ pc[t] \in {"cr_insert", "cl_remove"}
                 /\ poolsReaders # {}
                 /\ \A u \in poolsReaders :
                       /\ u # t
                       /\ pc[u] # "idle"
                       /\ CanStep(u) \/ (pc[u] = "sr_reqlock" /\ reqsWriter \in Threads \ {u})

\* a close waits for the read guard of a call whose operation is in flight
C10_Witness ==
    \E t \in Threads :
        /\ pc[t] = "cl_remove" /\ ~CanStep(t)
        /\ \E u \in poolsReaders : cur[u] \in InFlight

\* the call returned an error
SyncFailed(r) == r.ret \notin {"pending", "Success"}

\* the runner handed a failure to the completion closure of the call
AsyncFailed(r) ==
    /\ r.result # NoResult
    /\ \/ ~r.result.ok
       \/ r.op = "submit_request" /\ r.result.reply = "Failed"

\* the arguments of the call and what it did before the step
SameCall(r, q) ==
    /\ r.op = q.op /\ r.ph = q.ph /\ r.rh = q.rh /\ r.cb = q.cb
    /\ r.afterClose = q.afterClose /\ r.got = q.got /\ r.sent = q.sent

\* the step rejects a call before it reaches a lock
RejectStep == started' = started + 1 /\ pc' = pc

\* thread t leaves its function through an error: the message of that error
FailReturn(t) ==
    /\ pc'[t] = "idle"
    /\ \/ pc[t] \in {"gt_dispatch", "sr_dispatch", "sr_remove"}
       \/ pc[t] = "cl_remove" /\ calls[cur[t]].ph \notin pools

FailMessage(t) ==
    CASE pc[t] = "sr_remove" -> "Unknown request handle"
      [] pc[t] = "cl_remove" -> "Unknown pool handle"
      [] OTHER -> RunnerSendError.msg

\* the completion closure of the operation in slot s runs in the step
CompleteStep(s) == s \in InFlight /\ s \notin InFlight'

\* the call of slot s as the step leaves it
After(s) ==
    IF calls'[s] # NoCall THEN {calls'[s]}
    ELSE IF done' # done THEN done' \ done
    ELSE {r \in done : SameCall(r, [calls[s] EXCEPT !.sent = r.sent]) /\ r.ret = calls[s].ret}

LastErrorOf(r) == lastError'.msg = r.err /\ ErrorCodeFrom(lastError') = r.ret

\* C11: the last-error slot is empty exactly as long as no call has failed; a step
\* in which a call returns an error or a completion closure receives a failure
\* leaves the detail of that failure in the slot, and no other step changes it.
C11_LastError ==
    /\ [](lastError = NoError <=>
             \A r \in AllCalls : ~SyncFailed(r) /\ ~AsyncFailed(r))
    /\ [][/\ RejectStep =>
                /\ lastError' # NoError
                /\ \E r \in done' : SyncFailed(r) /\ r.sent = 0 /\ LastErrorOf(r)
          /\ \A t \in Threads :
                IF pc[t] # "idle" /\ FailReturn(t)
                THEN /\ lastError'.msg = FailMessage(t)
                     /\ \E r \in done' :
                           SameCall(r, [calls[cur[t]] EXCEPT !.sent = r.sent])
                              /\ SyncFailed(r) /\ LastErrorOf(r)
                ELSE pc[t] # pc'[t] => lastError' = lastError
          /\ \A s \in CallIds :
                CompleteStep(s) =>
                    \E r \in After(s) :
                        /\ r.result # NoResult
                        /\ lastError' = IF AsyncFailed(r) THEN r.result.err ELSE lastError
          /\ (~RejectStep /\ pc' = pc /\ \A s \in CallIds : ~CompleteStep(s))
                => lastError' = lastError]_vars

\* a callback has received a failure after a call had returned an error, and the
\* slot holds the detail of the failure the callback received
C11_Witness ==
    /\ \E r \in AllCalls : SyncFailed(r) /\ r.err # lastError.msg
    /\ \E r \in AllCalls : AsyncFailed(r) /\ r.result.err = lastError

\* handle h has been written to a caller's handle_p and no close of it has succeeded
Open(h) == issued[h] > 0 /\ ~Closed(h)

\* C12: from the moment a create has written handle H and until a close of H has
\* succeeded, H is in the table, so a get_transactions or submit_request call that
\* starts now and names H cannot be rejected, and a close that looks H up now
\* cannot fail; a handle is never written to a caller before its entry is in the
\* table.
C12_CreatedHandleFound ==
    \A h \in DOMAIN issued :
        Open(h) =>
            /\ h \in pools
            /\ \A t \in Threads :
                  /\ CanCall(t) =>
                        /\ ENABLED GetTxnsCall(t, h, TRUE)
                        /\ ~ENABLED (GetTxnsCall(t, h, TRUE) /\ pc'[t] = "idle")
                        /\ \A r \in RequestHandleArgs :
                              /\ ENABLED SubmitCall(t, h, r, TRUE)
                              /\ ~ENABLED (SubmitCall(t, h, r, TRUE) /\ pc'[t] = "idle")
                  /\ (pc[t] = "cl_remove" /\ calls[cur[t]].ph = h /\ ENABLED CloseRemove(t))
                        => ~ENABLED (CloseRemove(t) /\ lastError' # lastError)

\* a handle has been written and not closed, one call naming it has found the pool
\* and been dispatched, and another thread is about to look the same handle up in
\* close
C12_Witness ==
    \E h \in DOMAIN issued :
        /\ Open(h)
        /\ \E r \in AllCalls : Dispatched(r) /\ r.ph = h
        /\ \E t \in Threads : pc[t] = "cl_remove" /\ calls[cur[t]].ph = h

\* the text a callback reads from the C string it is given
CStrToString(p) ==
    LET n == CHOOSE i \in 1..Len(p) : p[i] = NUL /\ \A j \in 1..(i - 1) : p[j] # NUL
    IN SubSeq(p, 1, n - 1)

\* the transactions in their order with a newline between neighbours
Joined(txns) ==
    [i \in 1..(2 * Len(txns) - 1) |-> IF i % 2 = 1 THEN txns[(i + 1) \div 2] ELSE "\n"]

\* C13: what a callback receives is determined by the result the runner handed to
\* the closure: Success and the transactions joined by newlines in their order for
\* an Ok of get_transactions, Success and the body for an Ok with a Reply of
\* send_request, and otherwise the code of the error, which is not Success, with an
\* empty payload.
C13_CallbackFromResult ==
    \A r \in AllCalls :
        r.fired > 0 =>
            /\ r.result # NoResult
            /\ IF r.op = "get_transactions" /\ r.result.ok
               THEN r.code = "Success" /\ CStrToString(r.reply) = Joined(r.result.txns)
               ELSE IF r.op = "submit_request" /\ r.result.ok /\ r.result.reply = "Reply"
               THEN r.code = "Success" /\ CStrToString(r.reply) = <<r.result.body>>
               ELSE /\ r.code = ErrorCodeFrom(r.result.err)
                    /\ r.code # "Success"
                    /\ CStrToString(r.reply) = <<>>

\* a callback has received three different transactions joined in their order
C13_Witness ==
    \E r \in AllCalls :
        /\ r.fired = 1 /\ r.op = "get_transactions" /\ r.result.ok
        /\ r.result.txns = <<"txn2", "txn1", "txn3">>
        /\ CStrToString(r.reply) = <<"txn2", "\n", "txn1", "\n", "txn3">>

\* the closure of call r has matched a failure and has not yet invoked cb
FailureStored(r) == r.inflight /\ r.fired = 0 /\ AsyncFailed(r)

\* C14: when a closure is about to invoke cb for a failure, the last-error slot
\* already holds that failure, unless another call has failed since and left its
\* own detail there; the code cb then receives is the translation of the failure
\* the closure stored, and cb is never invoked before the result has been matched.
C14_StoredBeforeCallback ==
    /\ [](\A r \in AllCalls :
             /\ FailureStored(r) =>
                   \/ lastError = r.result.err
                   \/ \E q \in done : SyncFailed(q) /\ q.err = lastError.msg
                                         /\ q.ret = ErrorCodeFrom(lastError)
             /\ r.fired > 0 => r.result # NoResult
             /\ (r.fired > 0 /\ AsyncFailed(r)) => r.code = ErrorCodeFrom(r.result.err))
    /\ [][\A c \in CallIds :
             (c \in InFlight /\ FailureStored(calls[c]) /\ c \notin InFlight'
                 /\ lastError = calls[c].result.err)
                => \E r \in After(c) :
                      /\ r.fired = 1
                      /\ r.code = ErrorCodeFrom(lastError)
                      /\ lastError' = lastError]_vars

\* a closure has stored a failure of a request and is about to invoke cb, and no
\* other call has failed
C14_Witness ==
    \E r \in AllCalls :
        /\ FailureStored(r) /\ r.result.ok /\ r.result.reply = "Failed"
        /\ lastError = r.result.err
        /\ \A q \in done : ~SyncFailed(q)

C16_NothingRetried ==
    \A r \in AllCalls :
        /\ r.sent <= 1
        /\ r.op \in {"create", "close"} => r.sent = 0
        /\ r.err \in {"No callback provided", "Unknown pool handle",
                      "Unknown request handle"} => r.sent = 0
        /\ r.err = RunnerSendError.msg => r.sent = 1 /\ ~r.inflight /\ r.fired = 0
        /\ AsyncFailed(r) => r.sent = 1 /\ ~r.inflight

\* one call was refused by the runner and another was completed with a failure,
\* each after a single invocation of the runner
C16_Witness ==
    /\ \E r \in done : r.err = RunnerSendError.msg /\ r.sent = 1
    /\ \E r \in done : AsyncFailed(r) /\ r.sent = 1

\* a submit_request call that was rejected before the request table was touched
RejectedEarly(r) ==
    r.op = "submit_request" /\ r.err \in {"No callback provided", "Unknown pool handle"}

\* C17: a submit_request rejected for a missing callback or an unknown pool handle
\* has not touched the request table: the step that rejects it leaves the table
\* and its lock as they were, the call has taken no request, and the callback is
\* checked before the pool handle and the pool handle before the request handle.
C17_RejectLeavesRequests ==
    /\ [](\A r \in AllCalls :
             /\ RejectedEarly(r) => r.got = 0 /\ r.sent = 0
             /\ (r.op = "submit_request" /\ ~r.cb) => r.err = "No callback provided"
             /\ (r.op = "submit_request" /\ r.err = "Unknown request handle")
                   => r.cb /\ r.got = 0)
    /\ [][(RejectStep /\ lastError'.msg \in {"No callback provided", "Unknown pool handle"})
             => /\ requests' = requests
                /\ removed' = removed
                /\ reqsWriter' = reqsWriter]_vars

\* a submit_request naming a request was rejected for an unknown pool handle, the
\* request is still in the table, and another submit_request is about to take it
C17_Witness ==
    \E r \in done :
        /\ RejectedEarly(r) /\ r.cb /\ r.rh \in requests
        /\ \E t \in Threads :
              /\ pc[t] = "sr_remove" /\ calls[cur[t]].rh = r.rh
              /\ ENABLED (SubmitRemove(t) /\ calls'[cur[t]].got = r.rh)

\* the thread that is running call r, which has removed its request and is about to
\* hand it to the pool it found
AboutToSend(r) ==
    \E t \in Threads :
        /\ pc[t] = "sr_dispatch" /\ cur[t] # 0 /\ calls[cur[t]] = r
        /\ local[t] = r.got
        /\ t \in poolsReaders /\ r.ph \in pools

\* C18: a request that a submit_request call has removed from REQUESTS is handed to
\* the runner by that call exactly once, as soon as the call takes its next step,
\* and to the pool the call looked up; every invocation of send_request carries the
\* request its call removed; and a removed request is not in the table again, not
\* even after the runner has refused it.
C18_RemovedRequestSentOnce ==
    \A r \in AllCalls :
        /\ r.got # 0 =>
              /\ r.op = "submit_request" /\ r.got = r.rh
              /\ r.got \notin requests
              /\ removed[r.got] = 1
              /\ \/ r.sent = 1
                 \/ r.sent = 0 /\ r.ret = "pending" /\ AboutToSend(r)
        /\ (r.op = "submit_request" /\ r.sent > 0) => r.got = r.rh /\ r.got # 0
        /\ (r.op = "submit_request" /\ r.err = RunnerSendError.msg) =>
              r.got # 0 /\ r.got \notin requests /\ r.sent = 1

\* the runner has refused a request that a call had removed, and the request is not
\* in the table
C18_Witness ==
    \E r \in done :
        /\ r.op = "submit_request" /\ r.err = RunnerSendError.msg
        /\ r.got # 0 /\ r.sent = 1 /\ r.got \notin requests

\* thread t has looked pool h up and its get_transactions or submit_request call
\* has not returned
InWindow(t, h) == pc[t] \in GuardHeld /\ cur[t] # 0 /\ calls[cur[t]].ph = h

\* C19: while a thread is between its lookup of a pool and the return of its call,
\* the pool is in the table, and a close of that pool, or of any other, that has
\* reached the table cannot take its step.
C19_NoRemovalInWindow ==
    \A t \in Threads, h \in DOMAIN issued :
        InWindow(t, h) =>
            /\ h \in pools
            /\ \A u \in Threads : pc[u] = "cl_remove" => ~ENABLED CloseRemove(u)

\* a call is at its dispatch step on a pool while a close of the same pool has
\* reached the table
C19_Witness ==
    \E t, u \in Threads, h \in pools :
        /\ InWindow(t, h) /\ pc[t] \in {"gt_dispatch", "sr_dispatch"}
        /\ pc[u] = "cl_remove" /\ calls[cur[u]].ph = h

\* the step in which thread t returns from a successful create
CreateSucceeds(t) == pc[t] = "cr_insert" /\ pc'[t] = "idle"

\* C20: the table gains an entry, and a handle is written to a caller, only in the
\* step in which a create returns Success: that step adds exactly the entry of the
\* handle it writes, a handle that was not in the table, and keeps every other
\* entry. A create that fails returns with no handle written, and the step in which
\* it fails leaves the table, the handles written and the handle counter as they
\* were.
C20_CreateOnlyOnSuccess ==
    /\ [](\A r \in AllCalls :
             r.op = "create" =>
                 /\ r.ret # "Success" => r.out = 0
                 /\ r.ret = "Success" => r.out # 0 /\ issued[r.out] >= 1)
    /\ [][/\ (pools' \ pools # {} \/ issued' # issued) =>
                \E t \in Threads :
                    /\ CreateSucceeds(t)
                    /\ local[t] \notin pools
                    /\ pools' = pools \cup {local[t]}
                    /\ issued' = [issued EXCEPT ![local[t]] = @ + 1]
                    /\ \E r \in done' : r.op = "create" /\ r.ret = "Success"
                                           /\ r.out = local[t]
          /\ \A t \in Threads :
                CreateSucceeds(t) => pools' = pools \cup {local[t]} /\ pools' # pools
          /\ (RejectStep /\ lastError' \in {CreateError(o) : o \in CreateOutcomes \ {"ok"}})
                => pools' = pools /\ issued' = issued /\ phCounter' = phCounter]_vars

\* a create has failed in the pool factory and another has succeeded after a pool
\* was already in the table, which is still there
C20_Witness ==
    /\ \E r \in done : r.op = "create" /\ r.err = CreateError("factory").msg /\ r.out = 0
    /\ \E r, q \in done :
          /\ r.op = "create" /\ q.op = "create"
          /\ r.out # 0 /\ q.out # 0 /\ r.out # q.out
          /\ {r.out, q.out} \subseteq pools

====
